---------------------------- MODULE Spec2Model ----------------------------
(***************************************************************************)
(* The request-to-subprocess pipeline of vroom-express: execCallback and   *)
(* the subprocess event handlers it registers, in the three entry-point    *)
(* variants the repository holds:                                          *)
(*   "express"  src/src/index.js lines 1-254    (express, CommonJS)        *)
(*   "http"     src/src/index.js lines 255-516  (node:http, ES module)     *)
(*   "webhook"  src/unnamed/part_000            (node:http, callbackUrl)   *)
(* A server runs one variant; the variant and the configuration are fixed  *)
(* at startup.                                                             *)
(***************************************************************************)
EXTENDS Integers, Sequences, FiniteSets, TLC

(***************************************************************************)
(* Bounds of the model.                                                    *)
(***************************************************************************)
\* requests that may be in flight at once
MaxReqs == 2
\* the clock (Date.now()) runs from 0 to MaxTime
MaxTime == 1
\* Math.random() * 1E9 | 0 yields a value in 0 .. RandRange - 1
RandRange == 2

(***************************************************************************)
(* Program constants.                                                      *)
(***************************************************************************)
HTTP_OK_CODE == 200
HTTP_ERROR_CODE == 400
HTTP_INTERNALERROR_CODE == 500

\* config.vroomErrorCodes: the solver's exit codes (config.js is not part of
\* the sources; the four codes are distinct numbers).
vroomErrorCodes == [ok |-> 0, internal |-> 1, input |-> 2, routing |-> 3]

\* the `code` argument of 'close' when the child was killed by a signal (null)
NullCode == -1
\* the `code` argument of 'close' after a failed spawn (a negative errno)
SpawnErrno == -2

(***************************************************************************)
(* JavaScript values, as far as the handlers look at them: typeof, the     *)
(* truth value, and equality.                                              *)
(***************************************************************************)
Undefined == [t |-> "undefined", n |-> 0, s |-> ""]
Num(n) == [t |-> "number", n |-> n, s |-> ""]
Str(s) == [t |-> "string", n |-> 0, s |-> s]
Bool(b) == [t |-> "boolean", n |-> IF b THEN 1 ELSE 0, s |-> ""]
\* an array of n elements (vehicles, jobs, shipments)
Arr(n) == [t |-> "array", n |-> n, s |-> ""]

\* `if (v)`: undefined, false, 0 and "" are falsy
Truthy(v) ==
  CASE v.t = "undefined" -> FALSE
    [] v.t = "boolean" -> v.n = 1
    [] v.t = "number" -> v.n # 0
    [] v.t = "string" -> v.s # ""
    [] OTHER -> TRUE

\* typeof v === 'number'
IsNumber(v) == v.t = "number"

(***************************************************************************)
(* JavaScript objects: the members in insertion order, keys unique.        *)
(***************************************************************************)
Member(k, v) == [k |-> k, v |-> v]

Has(o, k) == \E i \in DOMAIN o : o[i].k = k

\* o.k, undefined when o has no such key
Get(o, k) ==
  IF Has(o, k) THEN o[CHOOSE i \in DOMAIN o : o[i].k = k].v ELSE Undefined

\* o.k = v: in place when the key exists, appended otherwise
Put(o, k, v) ==
  IF Has(o, k)
  THEN [i \in DOMAIN o |-> IF o[i].k = k THEN Member(k, v) ELSE o[i]]
  ELSE Append(o, Member(k, v))

\* const { k1, k2, ...rest } = o
Rest(o, ks) == SelectSeq(o, LAMBDA m : m.k \notin ks)

(***************************************************************************)
(* JSON text: a sequence of tokens, "{" members "}".  A chunk of stdout    *)
(* is any sequence of tokens, so a text may be cut anywhere or hold bytes  *)
(* that are no JSON at all.                                                *)
(***************************************************************************)
LBrace == Member("{", Undefined)
RBrace == Member("}", Undefined)
\* bytes that are not JSON
Garbage == Member("#", Undefined)

Punctuation == {"{", "}", "#"}

\* a member "name" whose string value is one two-byte character: its two
\* bytes, and what a byte decoded without the other one gives (U+FFFD)
Lead == Member("name", Str("C3"))
Trail == Member("name", Str("A9"))
Replacement == Member("name", Str("FFFD"))

\* buffer.toString(): UTF-8 decoding; a byte of a character whose other byte
\* is not in this buffer decodes to U+FFFD
toString(data) ==
  [i \in DOMAIN data |->
     IF data[i] = Lead /\ (i = Len(data) \/ data[i + 1] # Trail)
     THEN Replacement
     ELSE IF data[i] = Trail /\ (i = 1 \/ data[i - 1] # Lead)
     THEN Replacement
     ELSE data[i]]

\* JSON.stringify(o): members whose value is undefined are left out
JSONStringify(o) ==
  <<LBrace>> \o SelectSeq(o, LAMBDA m : m.v.t # "undefined") \o <<RBrace>>

\* whether JSON.parse(text) returns (an object) rather than throws
Parses(text) ==
  /\ Len(text) >= 2
  /\ text[1] = LBrace
  /\ text[Len(text)] = RBrace
  /\ \A i \in 2 .. Len(text) - 1 : text[i].k \notin Punctuation

RECURSIVE Members(_)
\* the object the member tokens build: a repeated key keeps its first place
\* and its last value
Members(toks) ==
  IF toks = <<>> THEN <<>>
  ELSE LET last == toks[Len(toks)]
       IN Put(Members(SubSeq(toks, 1, Len(toks) - 1)), last.k, last.v)

\* JSON.parse(text), for a text that parses
JSONParse(text) == Members(SubSeq(text, 2, Len(text) - 1))

\* a relay that keeps only the last chunk
ConcatLast(chunks) ==
  IF chunks = <<>> THEN <<>> ELSE chunks[Len(chunks)]

RECURSIVE Concat(_)
\* Buffer.concat(chunks)
Concat(chunks) ==
  IF chunks = <<>> THEN <<>> ELSE chunks[1] \o Concat(Tail(chunks))

(***************************************************************************)
(* State.                                                                  *)
(***************************************************************************)
VARIABLES
  variant,   \* which entry point the server runs
  args,      \* config.cliArgs, read-only after startup
  options,   \* the module-level flag array built at startup
  now,       \* Date.now()
  uuids,     \* how many crypto.randomUUID() values have been drawn
  files,     \* the log directory: file name -> content
  req,       \* per request: the closure of execCallback and its subprocess
  health,    \* per health request: the closure of the health handler
  crashed    \* an exception escaped a handler: the server process is gone

vars == <<variant, args, options, now, uuids, files, req, health, crashed>>

Variants == {"express", "http", "webhook"}

Reqs == 1 .. MaxReqs

(***************************************************************************)
(* Startup: the static flag list.                                          *)
(***************************************************************************)
Arg(s) == [s |-> s, n |-> 0]
\* s + n, a string followed by a number ('-t ' + nbThreads)
ArgN(s, n) == [s |-> s, n |-> n]

\* config.routingServers[args.router]: one profile with host and port
RoutingFlags ==
  <<Arg("-a"), Arg("car:localhost"), Arg("-p"), Arg("car:5000")>>

StartupOptions(a) ==
  <<Arg("-r"), Arg(a.router)>>
    \o (IF a.router # "libosrm" THEN RoutingFlags ELSE <<>>)
    \o (IF a.geometry THEN <<Arg("-g")>> ELSE <<>>)
    \o (IF a.planmode THEN <<Arg("-c")>> ELSE <<>>)

Configs ==
  [override : BOOLEAN, geometry : BOOLEAN, planmode : BOOLEAN,
   router : {"osrm", "libosrm"}, threads : {4}, explore : {5}]

\* The limits the specification's Request Validator compares against.  No
\* entry point reads them.
limits == [maxlocations |-> 2, maxvehicles |-> 1]

(***************************************************************************)
(* Option Translator: the flag list of one request, before '-i'.           *)
(***************************************************************************)
\* a handler that pushes its flags onto the module-level array itself
OptionsShared(static, flags) == flags

\* const reqOptions = options.slice(): the pushes of a request go to its own
\* copy, so the module-level array is after the request what it was before
OptionsAfter(static, flags) == static

\* the translator without the args.override guard
ReqOptionsNoGuard(a, static, opts) ==
  LET nbThreads == IF IsNumber(Get(opts, "t")) THEN Get(opts, "t").n
                   ELSE a.threads
      explorationLevel == IF IsNumber(Get(opts, "x")) THEN Get(opts, "x").n
                          ELSE a.explore
  IN static
       \o (IF ~a.geometry /\ Truthy(Get(opts, "g"))
           THEN <<Arg("-g")>> ELSE <<>>)
       \o (IF ~a.planmode /\ Truthy(Get(opts, "c"))
           THEN <<Arg("-c")>> ELSE <<>>)
       \o (IF IsNumber(Get(opts, "l"))
           THEN <<ArgN("-l ", Get(opts, "l").n)>> ELSE <<>>)
       \o <<ArgN("-t ", nbThreads), ArgN("-x ", explorationLevel)>>

\* the translator without the !args.geometry and !args.planmode guards
ReqOptionsRepeated(a, static, opts) ==
  LET override == a.override
      nbThreads == IF override /\ IsNumber(Get(opts, "t"))
                   THEN Get(opts, "t").n ELSE a.threads
      explorationLevel == IF override /\ IsNumber(Get(opts, "x"))
                          THEN Get(opts, "x").n ELSE a.explore
  IN static
       \o (IF override /\ Truthy(Get(opts, "g"))
           THEN <<Arg("-g")>> ELSE <<>>)
       \o (IF override /\ Truthy(Get(opts, "c"))
           THEN <<Arg("-c")>> ELSE <<>>)
       \o (IF override /\ IsNumber(Get(opts, "l"))
           THEN <<ArgN("-l ", Get(opts, "l").n)>> ELSE <<>>)
       \o <<ArgN("-t ", nbThreads), ArgN("-x ", explorationLevel)>>

ReqOptions(a, static, opts) ==
  LET override == a.override
      nbThreads == IF override /\ IsNumber(Get(opts, "t"))
                   THEN Get(opts, "t").n ELSE a.threads
      explorationLevel == IF override /\ IsNumber(Get(opts, "x"))
                          THEN Get(opts, "x").n ELSE a.explore
  IN static
       \o (IF override /\ ~a.geometry /\ Truthy(Get(opts, "g"))
           THEN <<Arg("-g")>> ELSE <<>>)
       \o (IF override /\ ~a.planmode /\ Truthy(Get(opts, "c"))
           THEN <<Arg("-c")>> ELSE <<>>)
       \o (IF override /\ IsNumber(Get(opts, "l"))
           THEN <<ArgN("-l ", Get(opts, "l").n)>> ELSE <<>>)
       \o <<ArgN("-t ", nbThreads), ArgN("-x ", explorationLevel)>>

(***************************************************************************)
(* Temp file names.                                                        *)
(***************************************************************************)
\* room for the suffix of a name: a random number or a UUID
Stride == RandRange + MaxReqs

\* `${args.logdir}/${timestamp}_${suffix}.json`: one name per pair
FileName(timestamp, suffix) == timestamp * Stride + suffix

\* fileExists(filePath)
fileExists(fs, filePath) == filePath \in DOMAIN fs

\* fs.writeFileSync(fileName, data)
WriteFile(fs, fileName, data) ==
  [f \in DOMAIN fs \cup {fileName} |-> IF f = fileName THEN data ELSE fs[f]]

\* fs.unlinkSync(fileName)
Unlink(fs, fileName) == [f \in DOMAIN fs \ {fileName} |-> fs[f]]

(***************************************************************************)
(* Responses.  A request record q holds what was written to the HTTP       *)
(* response (res), what was posted to the callback URL (posts) and, in     *)
(* threw, the handler out of which an exception escaped.  The field `by`   *)
(* of a write or post names the handler that made it.                      *)
(***************************************************************************)
\* the synthesized error body of the close handler's default case
InternalError ==
  <<Member("code", Num(vroomErrorCodes.internal)),
    Member("error", Str("Internal error"))>>

\* res.setHeader / res.end on a raw http.ServerResponse: setHeader throws
\* ERR_HTTP_HEADERS_SENT once the response has been sent
EndResponse(q, by, status, body) ==
  IF q.res # <<>>
  THEN [q EXCEPT !.threw = by]
  ELSE [q EXCEPT !.res = <<[by |-> by, status |-> status, body |-> body]>>]

\* respondWithJsonToWebhook(callbackUrl, json): the fetch is started
PostToWebhook(q, by, callbackUrl, json) ==
  [q EXCEPT !.posts = Append(@, [by |-> by, url |-> callbackUrl.s,
                                 body |-> JSONStringify(json)])]

\* respondWithJson(callback, res, json, status)
respondWithJson(q, by, callback, json, status) ==
  IF Truthy(callback)
  THEN PostToWebhook(q, by, callback, Put(json, "statusCode", Num(status)))
  ELSE EndResponse(q, by, status, JSONStringify(json))

(***************************************************************************)
(* Exit-code -> status table of the close handler (the switch).            *)
(***************************************************************************)
Recognized(code) ==
  code \in {vroomErrorCodes.ok, vroomErrorCodes.internal,
            vroomErrorCodes.input, vroomErrorCodes.routing}

\* the switch with the routing case falling into the input case
HttpStatusRoutingAsInput(code) ==
  CASE code = vroomErrorCodes.ok -> HTTP_OK_CODE
    [] code = vroomErrorCodes.internal -> HTTP_INTERNALERROR_CODE
    [] code = vroomErrorCodes.input -> HTTP_ERROR_CODE
    [] code = vroomErrorCodes.routing -> HTTP_ERROR_CODE
    [] OTHER -> HTTP_INTERNALERROR_CODE

HttpStatus(code) ==
  CASE code = vroomErrorCodes.ok -> HTTP_OK_CODE
    [] code = vroomErrorCodes.internal -> HTTP_INTERNALERROR_CODE
    [] code = vroomErrorCodes.input -> HTTP_ERROR_CODE
    [] code = vroomErrorCodes.routing -> HTTP_INTERNALERROR_CODE
    [] OTHER -> HTTP_INTERNALERROR_CODE

(***************************************************************************)
(* A request before it arrives.                                            *)
(***************************************************************************)
IdleReq ==
  [pc |-> "idle",            \* idle, running, closed, failed
   body |-> <<>>,            \* the parsed request body
   routeId |-> Undefined,
   batchId |-> Undefined,
   callbackUrl |-> Undefined,
   reqOptions |-> <<>>,      \* the flags handed to spawn
   fileName |-> -1,
   spawnOk |-> FALSE,        \* the subprocess: whether it could be spawned,
   stdout |-> <<>>,          \*   all it writes to stdout,
   out |-> <<>>,             \*   and what of it has not been delivered yet
   errored |-> FALSE,        \* the 'error' handler has run
   solution |-> <<>>,        \* express: let solution = ''
   chunks |-> <<>>,          \* http, webhook: let chunks = []
   status |-> HTTP_OK_CODE,  \* let status = 200
   code |-> NullCode,        \* the exit code 'close' was emitted with
   res |-> <<>>,             \* what was sent on the HTTP response
   posts |-> <<>>,           \* the posts started to the callback URL
   threw |-> ""]             \* the handler an exception escaped from

IdKeys == {"routeId", "batchId", "callbackUrl"}

\* the acknowledgement of a request that carries a callback URL
AckJson(routeId, batchId) ==
  <<Member("routeId", routeId), Member("batchId", batchId),
    Member("message", Str("processing orders")),
    Member("status", Str("OK"))>>

\* the payload of the 'error' handler, express
ExpressErrorJson ==
  <<Member("code", Num(vroomErrorCodes.internal)),
    Member("error", Str("Unknown internal error"))>>

\* the payload of the 'error' handler, webhook
WebhookErrorJson(routeId, batchId) ==
  <<Member("routeId", routeId), Member("batchId", batchId),
    Member("message", Str("Unknown internal error")),
    Member("code", Num(vroomErrorCodes.internal)),
    Member("error", Str("Internal error"))>>

(***************************************************************************)
(* execCallback, from the parsed body to the spawn: one turn of the event  *)
(* loop.  rnd is the value of Math.random() * 1E9 | 0, writeOk whether     *)
(* fs.writeFileSync returns, spawnOk and stdout what the subprocess will   *)
(* do.                                                                     *)
(***************************************************************************)
ExecCallback(r, body, rnd, writeOk, spawnOk, stdout) ==
  /\ ~crashed
  /\ req[r].pc = "idle"
  /\ variant = "express" => rnd = 0
  /\ ~writeOk => ~spawnOk
  /\ ~spawnOk => stdout = <<>>
  /\ LET webhook == variant = "webhook"
         routeId == IF webhook THEN Get(body, "routeId") ELSE Undefined
         batchId == IF webhook THEN Get(body, "batchId") ELSE Undefined
         callbackUrl == IF webhook THEN Get(body, "callbackUrl")
                        ELSE Undefined
         json == IF webhook THEN Rest(body, IdKeys) ELSE body
         q1 == [req[r] EXCEPT !.body = body, !.routeId = routeId,
                              !.batchId = batchId,
                              !.callbackUrl = callbackUrl]
         q2 == IF Truthy(callbackUrl)
               THEN respondWithJson(q1, "ack", callbackUrl,
                                    AckJson(routeId, batchId), HTTP_OK_CODE)
               ELSE q1
         flags == ReqOptions(args, options, json)
         suffix == IF variant = "express" THEN uuids ELSE rnd
         fileName == FileName(now, suffix)
         q3 == [q2 EXCEPT !.reqOptions = flags, !.fileName = fileName]
     IN /\ uuids' = IF variant = "express" THEN uuids + 1 ELSE uuids
        /\ options' = OptionsAfter(options, flags)
        /\ IF writeOk
           THEN /\ files' = WriteFile(files, fileName, JSONStringify(json))
                /\ req' = [req EXCEPT ![r] =
                             [q3 EXCEPT !.pc = "running",
                                        !.reqOptions =
                                           Append(flags,
                                                  ArgN("-i ", fileName)),
                                        !.spawnOk = spawnOk,
                                        !.stdout = stdout,
                                        !.out = stdout]]
                /\ UNCHANGED crashed
           ELSE /\ UNCHANGED files
                /\ LET q4 == IF variant = "express"
                             THEN EndResponse(q3, "exec",
                                              HTTP_INTERNALERROR_CODE,
                                              JSONStringify(InternalError))
                             ELSE [q3 EXCEPT !.threw = "exec"]
                   IN /\ req' = [req EXCEPT ![r] = [q4 EXCEPT !.pc = "failed"]]
                      /\ crashed' = (q4.threw # "")
  /\ UNCHANGED <<variant, args, now, health>>

(***************************************************************************)
(* vroom.on('error', ...): the subprocess could not be spawned.            *)
(***************************************************************************)
ErrorEvent(r) ==
  /\ ~crashed
  /\ req[r].pc = "running"
  /\ ~req[r].spawnOk
  /\ ~req[r].errored
  /\ LET q == [req[r] EXCEPT !.errored = TRUE]
         q1 == CASE variant = "express" ->
                      EndResponse(q, "error", HTTP_INTERNALERROR_CODE,
                                  JSONStringify(ExpressErrorJson))
                 [] variant = "http" -> [q EXCEPT !.threw = "error"]
                 [] OTHER ->
                      respondWithJson(q, "error", q.callbackUrl,
                                      WebhookErrorJson(q.routeId, q.batchId),
                                      HTTP_INTERNALERROR_CODE)
     IN /\ req' = [req EXCEPT ![r] = q1]
        /\ crashed' = (q1.threw # "")
  /\ UNCHANGED <<variant, args, options, now, uuids, files, health>>

(***************************************************************************)
(* vroom.stdout.on('data', ...): the next k tokens of stdout arrive.       *)
(***************************************************************************)
StdoutData(r, k) ==
  /\ ~crashed
  /\ req[r].pc = "running"
  /\ req[r].spawnOk
  /\ k \in 1 .. Len(req[r].out)
  /\ LET q == req[r]
         data == SubSeq(q.out, 1, k)
         rest == SubSeq(q.out, k + 1, Len(q.out))
     IN req' = [req EXCEPT ![r] =
                  IF variant = "express"
                  THEN [q EXCEPT !.out = rest,
                                 !.solution = @ \o toString(data)]
                  ELSE [q EXCEPT !.out = rest, !.chunks = Append(@, data)]]
  /\ UNCHANGED <<variant, args, options, now, uuids, files, health, crashed>>

(***************************************************************************)
(* vroom.on('close', ...): stdout has ended and the subprocess is gone.    *)
(* After a failed spawn the code is a negative errno.  unlinkOk is whether *)
(* fs.unlinkSync returns.                                                  *)
(***************************************************************************)
\* a close handler whose default case keeps what stdout delivered
RelayedStdout(q, code) ==
  IF variant = "express" THEN q.solution ELSE Concat(q.chunks)

\* what the close handler relays: stdout, or the synthesized error
Relayed(q, code) ==
  IF Recognized(code)
  THEN (IF variant = "express" THEN q.solution ELSE Concat(q.chunks))
  ELSE JSONStringify(InternalError)

\* { ...data, routeId, batchId }
WithIds(data, routeId, batchId) ==
  Put(Put(data, "routeId", routeId), "batchId", batchId)

\* the response of the close handler
Respond(q, code) ==
  LET text == IF variant = "webhook" THEN toString(Relayed(q, code))
              ELSE Relayed(q, code)
  IN IF variant = "webhook"
     THEN IF Parses(text)
          THEN respondWithJson(q, "close", q.callbackUrl,
                               WithIds(JSONParse(text), q.routeId, q.batchId),
                               q.status)
          ELSE [q EXCEPT !.threw = "close"]
     ELSE EndResponse(q, "close", q.status, text)

Close(r, code, unlinkOk) ==
  /\ ~crashed
  /\ req[r].pc = "running"
  /\ req[r].out = <<>>
  /\ IF req[r].spawnOk THEN code # SpawnErrno
     ELSE req[r].errored /\ code = SpawnErrno
  /\ LET q == [req[r] EXCEPT !.pc = "closed", !.code = code,
                             !.status = HttpStatus(code)]
         q1 == Respond(q, code)
         reap == q1.threw = "" /\ fileExists(files, q.fileName)
         q2 == IF reap /\ ~unlinkOk THEN [q1 EXCEPT !.threw = "unlink"]
               ELSE q1
     IN /\ req' = [req EXCEPT ![r] = q2]
        /\ files' = IF reap /\ unlinkOk THEN Unlink(files, q.fileName)
                    ELSE files
        /\ crashed' = (q2.threw # "")
  /\ UNCHANGED <<variant, args, options, now, uuids, health>>

\* a millisecond passes
Tick ==
  /\ ~crashed
  /\ now < MaxTime
  /\ now' = now + 1
  /\ UNCHANGED <<variant, args, options, uuids, files, req, health, crashed>>

(***************************************************************************)
(* The health endpoint: the solver is run on the bundled fixture.  A       *)
(* health request h holds the closure of its handler (status), its         *)
(* response (res), and its subprocess: whether it could be spawned and the *)
(* stderr chunks it has still to deliver.                                  *)
(***************************************************************************)
\* stderr chunks one health run may write
MaxStderr == 2

IdleHealth ==
  [pc |-> "idle",            \* idle, running, closed
   spawns |-> 0,             \* how often spawn was called
   spawnOk |-> FALSE,
   stderr |-> 0,             \* stderr chunks not delivered yet
   errored |-> FALSE,        \* the 'error' handler has run
   seen |-> 0,               \* stderr 'data' events handled
   status |-> HTTP_OK_CODE,  \* let status = HTTP_OK_CODE
   code |-> NullCode,
   res |-> <<>>]

\* GET <base>/health: spawn, and register the three handlers
HealthChecks(h, spawnOk, nerr) ==
  /\ ~crashed
  /\ health[h].pc = "idle"
  /\ ~spawnOk => nerr = 0
  /\ health' = [health EXCEPT ![h] =
                  [@ EXCEPT !.pc = "running", !.spawns = @ + 1,
                            !.spawnOk = spawnOk, !.stderr = nerr,
                            !.status = HTTP_OK_CODE]]
  /\ UNCHANGED <<variant, args, options, now, uuids, files, req, crashed>>

\* vroom.on('error', ...)
HealthError(h) ==
  /\ ~crashed
  /\ health[h].pc = "running"
  /\ ~health[h].spawnOk
  /\ ~health[h].errored
  /\ health' = [health EXCEPT ![h] =
                  [@ EXCEPT !.errored = TRUE,
                            !.status = HTTP_INTERNALERROR_CODE]]
  /\ UNCHANGED <<variant, args, options, now, uuids, files, req, crashed>>

\* a stderr handler that only records the message
HealthStderrMsgOnly(h) ==
  /\ ~crashed
  /\ health[h].pc = "running"
  /\ health[h].stderr > 0
  /\ health' = [health EXCEPT ![h] =
                  [@ EXCEPT !.stderr = @ - 1, !.seen = @ + 1]]
  /\ UNCHANGED <<variant, args, options, now, uuids, files, req, crashed>>

\* vroom.stderr.on('data', ...)
HealthStderr(h) ==
  /\ ~crashed
  /\ health[h].pc = "running"
  /\ health[h].stderr > 0
  /\ health' = [health EXCEPT ![h] =
                  [@ EXCEPT !.stderr = @ - 1, !.seen = @ + 1,
                            !.status = HTTP_INTERNALERROR_CODE]]
  /\ UNCHANGED <<variant, args, options, now, uuids, files, req, crashed>>

\* vroom.on('close', ...): stderr has ended; the response is sent
HealthClose(h, code) ==
  /\ ~crashed
  /\ health[h].pc = "running"
  /\ health[h].stderr = 0
  /\ IF health[h].spawnOk THEN code # SpawnErrno
     ELSE health[h].errored /\ code = SpawnErrno
  /\ health' = [health EXCEPT ![h] =
                  [@ EXCEPT !.pc = "closed", !.code = code,
                            !.res = Append(@,
                                      [status |-> health[h].status,
                                       body |-> IF variant = "express"
                                                THEN "" ELSE "OK"])]]
  /\ UNCHANGED <<variant, args, options, now, uuids, files, req, crashed>>

(***************************************************************************)
(* Inputs.                                                                 *)
(***************************************************************************)
\* a request body: the keys that are given, in this order
Body(routeId, batchId, callbackUrl, g, c, t, x, l, vehicles, jobs, shipments) ==
  SelectSeq(<<Member("routeId", routeId), Member("batchId", batchId),
              Member("callbackUrl", callbackUrl),
              Member("g", g), Member("c", c), Member("t", t),
              Member("x", x), Member("l", l),
              Member("vehicles", vehicles), Member("jobs", jobs),
              Member("shipments", shipments)>>,
            LAMBDA m : m.v.t # "undefined")

RouteIds == {Undefined, Str("r1")}
BatchIds == {Undefined, Str("b1")}
CallbackUrls == {Undefined, Str("http://cb")}
Flags == {Undefined, Bool(TRUE), Bool(FALSE), Str("false"), Num(1)}
Threads == {Undefined, Num(2), Str("2")}
Explorations == {Undefined, Num(3), Str("3")}
MatrixLimits == {Undefined, Num(7), Bool(TRUE)}

\* the fixture's shape: one vehicle, two jobs
PlainBodies ==
  {Body(rid, bid, cb, Undefined, Undefined, Undefined, Undefined, Undefined,
        Arr(1), Arr(2), Undefined) :
     rid \in RouteIds, bid \in BatchIds, cb \in CallbackUrls}

OverrideBodies ==
  {Body(Undefined, Undefined, Undefined, g, c, t, x, l,
        Arr(1), Arr(2), Undefined) :
     g \in Flags, c \in Flags, t \in Threads, x \in Explorations,
     l \in MatrixLimits}

ShapeBodies ==
  {Body(Undefined, Undefined, Undefined, Undefined, Undefined, Undefined,
        Undefined, Undefined, v, j, s) :
     v \in {Undefined, Arr(1), Arr(2)}, j \in {Undefined, Arr(1), Arr(3)},
     s \in {Undefined, Arr(1)}}

\* what a solver may write to stdout
Solution == <<LBrace, Member("routes", Arr(1)), RBrace>>
SolverError ==
  <<LBrace, Member("code", Num(vroomErrorCodes.internal)),
    Member("error", Str("solver error")), RBrace>>
Stdouts ==
  {<<>>,
   <<LBrace, Member("routes", Arr(1))>>,
   <<Garbage>>,
   Solution,
   SolverError,
   <<LBrace, Member("routeId", Str("solver")), Member("routes", Arr(1)),
     RBrace>>,
   <<LBrace, Member("routes", Arr(1)), Lead, Trail, RBrace>>}

\* the exit codes of a subprocess that was spawned: the four configured
\* ones, another one, and null
ExitCodes == {0, 1, 2, 3, 4, NullCode}

(***************************************************************************)
(* Specifications.                                                         *)
(***************************************************************************)
InitFor(vs, cs) ==
  /\ variant \in vs
  /\ args \in cs
  /\ options = StartupOptions(args)
  /\ now = 0
  /\ uuids = 0
  /\ files = <<>>
  /\ req = [r \in Reqs |-> IdleReq]
  /\ health = [h \in Reqs |-> IdleHealth]
  /\ crashed = FALSE

\* p names the sets the inputs are drawn from
\* a POST arrives and execCallback runs on its parsed body
Receive(p, r) ==
  /\ req[r].pc = "idle"
  /\ \E body \in p.bodies, rnd \in p.rnds, writeOk \in BOOLEAN,
        spawnOk \in BOOLEAN, stdout \in p.stdouts \cup {<<>>} :
       ExecCallback(r, body, rnd, writeOk, spawnOk, stdout)

NextFor(p) ==
  \/ \E r \in p.reqs : Receive(p, r)
  \/ \E r \in p.reqs : ErrorEvent(r)
  \/ \E r \in p.reqs, k \in p.cuts : StdoutData(r, k)
  \/ \E r \in p.reqs, code \in p.codes \cup {SpawnErrno},
        unlinkOk \in BOOLEAN :
       Close(r, code, unlinkOk)

\* one request, every outcome of its subprocess
Init == InitFor(Variants, {a \in Configs : a.router = "osrm"})
Inputs ==
  [reqs |-> {1}, bodies |-> PlainBodies, rnds |-> {0},
   stdouts |-> Stdouts, cuts |-> 1 .. 5, codes |-> ExitCodes]
Next == NextFor(Inputs)
Spec == Init /\ [][Next]_vars

\* one request, every configuration, override and body shape
InitOpts == InitFor(Variants, Configs)
InputsOpts ==
  [reqs |-> {1}, bodies |-> OverrideBodies \cup ShapeBodies,
   rnds |-> {0}, stdouts |-> {Solution}, cuts |-> {3},
   codes |-> {vroomErrorCodes.ok}]
NextOpts == NextFor(InputsOpts)
SpecOpts == InitOpts /\ [][NextOpts]_vars

\* several requests in flight at once, while time passes
InitConc ==
  InitFor(Variants, {a \in Configs : a.router = "osrm" /\ a.override
                                       /\ ~a.geometry /\ ~a.planmode})
InputsConc ==
  [reqs |-> Reqs,
   bodies |-> {Body(Undefined, Undefined, cb, g, Undefined,
                    Undefined, Undefined, Undefined,
                    Arr(1), Arr(2), Undefined) :
                 cb \in CallbackUrls, g \in {Undefined, Bool(TRUE)}},
   rnds |-> 0 .. RandRange - 1, stdouts |-> {Solution},
   cuts |-> {3}, codes |-> {vroomErrorCodes.ok}]
NextConc ==
  \/ NextFor(InputsConc)
  \/ Tick
SpecConc == InitConc /\ [][NextConc]_vars

\* several requests in flight at once that differ in the override they ask for
InitShare == InitConc
InputsShare ==
  [reqs |-> Reqs,
   bodies |-> {Body(Undefined, Undefined, Undefined, g, Undefined,
                    Undefined, Undefined, Undefined,
                    Arr(1), Arr(2), Undefined) :
                 g \in {Undefined, Bool(TRUE)}},
   rnds |-> 0 .. RandRange - 1, stdouts |-> {Solution},
   cuts |-> {3}, codes |-> {vroomErrorCodes.ok}]
NextShare == NextFor(InputsShare)
SpecShare == InitShare /\ [][NextShare]_vars

\* health requests, alone
InitHealth == InitFor(Variants, {a \in Configs : a.router = "osrm"})
NextHealth ==
  \/ \E h \in Reqs, spawnOk \in BOOLEAN, nerr \in 0 .. MaxStderr :
       HealthChecks(h, spawnOk, nerr)
  \/ \E h \in Reqs : HealthError(h)
  \/ \E h \in Reqs : HealthStderr(h)
  \/ \E h \in Reqs, code \in {vroomErrorCodes.ok, vroomErrorCodes.input,
                               NullCode, SpawnErrno} :
       HealthClose(h, code)
SpecHealth == InitHealth /\ [][NextHealth]_vars

(***************************************************************************)
(* Properties.                                                             *)
(***************************************************************************)
\* the members of an object, order put aside
ObjSet(o) == {o[i] : i \in DOMAIN o}

\* the posts of q made by handler `by`
PostsBy(q, by) == SelectSeq(q.posts, LAMBDA m : m.by = by)

\* the final results of a request: the writes to the HTTP response, or, with
\* a callback URL, the posts other than the acknowledgement
FinalResults(q) ==
  IF Truthy(q.callbackUrl)
  THEN Len(SelectSeq(q.posts, LAMBDA m : m.by # "ack"))
  ELSE Len(q.res)

\* C1: once the subprocess of a request has closed, exactly one final result
\* has been delivered for it: one write to the HTTP response, or one
\* final-result post to the callback URL.
C1_ExactlyOneResult ==
  \A r \in Reqs : req[r].pc = "closed" => FinalResults(req[r]) = 1

\* C2: once the close handler of a request has run, the request's temp file
\* does not exist, unless removing it was what failed.
C2_TempFileRemoved ==
  \A r \in Reqs :
    (req[r].pc = "closed" /\ req[r].threw # "unlink")
      => ~fileExists(files, req[r].fileName)

\* a body without vehicles, or with neither jobs nor shipments
MissingInput(body) ==
  \/ ~Has(body, "vehicles")
  \/ ~Has(body, "jobs") /\ ~Has(body, "shipments")

\* whether a temp file was written or a subprocess spawned for q
Invoked(q) == q.pc \in {"running", "closed"}

\* q was answered with `status` and a structured error
Rejected(q, status) ==
  /\ Len(q.res) = 1
  /\ q.res[1].status = status
  /\ Parses(q.res[1].body)
  /\ Has(JSONParse(q.res[1].body), "code")
  /\ Has(JSONParse(q.res[1].body), "error")

\* C3: a request without vehicles, or with neither jobs nor shipments, is
\* answered with 400 and a structured error, and neither a temp file nor a
\* subprocess is made for it.  A request whose temp file could not be written
\* is left aside.
C3_MissingInputRejected ==
  \A r \in Reqs :
    (req[r].pc \notin {"idle", "failed"} /\ MissingInput(req[r].body))
      => (~Invoked(req[r]) /\ Rejected(req[r], HTTP_ERROR_CODE))

\* jobs.length + 2 * shipments.length
LocationCount(body) == Get(body, "jobs").n + 2 * Get(body, "shipments").n

TooLarge(body) ==
  \/ LocationCount(body) > limits.maxlocations
  \/ Get(body, "vehicles").n > limits.maxvehicles

\* C4: a request with more locations or more vehicles than configured is
\* answered with 413 and no subprocess is spawned for it.  A request whose
\* temp file could not be written is left aside.
C4_TooLargeRejected ==
  \A r \in Reqs :
    (req[r].pc \notin {"idle", "failed"} /\ ~MissingInput(req[r].body)
       /\ TooLarge(req[r].body))
      => (~Invoked(req[r]) /\ Len(req[r].res) = 1
            /\ req[r].res[1].status = 413)

IdsOf(body) ==
  {Member(k, Get(body, k)) : k \in {k \in {"routeId", "batchId"} : Has(body, k)}}

\* the subprocess of q wrote the JSON object q.stdout and closed with the
\* success code
Succeeded(q) ==
  /\ q.pc = "closed"
  /\ q.spawnOk
  /\ q.code = vroomErrorCodes.ok
  /\ Parses(q.stdout)

\* S with the identifiers the request supplies merged in
MergedSupplied(q) ==
  {m \in ObjSet(JSONParse(q.stdout)) :
     m.k \notin {"routeId", "batchId"} \/ ~Has(q.body, m.k)}
    \cup IdsOf(q.body)

\* S with its routeId and batchId replaced by the request's: removed where the
\* request supplies none
MergedReplaced(q) ==
  {m \in ObjSet(JSONParse(q.stdout)) : m.k \notin {"routeId", "batchId"}}
    \cup IdsOf(q.body)

Carries(q, status, code) ==
  IF Truthy(q.callbackUrl)
  THEN \E i \in DOMAIN q.posts :
         /\ q.posts[i].by = "close"
         /\ Parses(q.posts[i].body)
         /\ Get(JSONParse(q.posts[i].body), "statusCode") = Num(status)
         /\ Get(JSONParse(q.posts[i].body), "code") = Num(code)
  ELSE /\ Len(q.res) = 1
       /\ q.res[1].status = status
       /\ Parses(q.res[1].body)
       /\ Get(JSONParse(q.res[1].body), "code") = Num(code)

\* C6: after a close with the internal-error exit code the status is 500 and
\* the body carries the internal-error code, whatever was written to stdout.
C6_InternalErrorBody ==
  \A r \in Reqs :
    (req[r].pc = "closed" /\ req[r].spawnOk
       /\ req[r].code = vroomErrorCodes.internal)
      => Carries(req[r], HTTP_INTERNALERROR_CODE, vroomErrorCodes.internal)

\* the status the table gives for an exit code
InTable(code, status) ==
  /\ code = vroomErrorCodes.ok => status = 200
  /\ code = vroomErrorCodes.internal => status = 500
  /\ code = vroomErrorCodes.input => status = 400
  /\ code = vroomErrorCodes.routing => status = 500
  /\ code \notin {vroomErrorCodes.ok, vroomErrorCodes.internal,
                  vroomErrorCodes.input, vroomErrorCodes.routing}
       => status = 500

\* the synthesized internal-error body, with at most the identifiers and the
\* statusCode of the webhook variant added
Synthesized(text) ==
  /\ Parses(text)
  /\ LET o == JSONParse(text)
     IN /\ Get(o, "code") = Num(vroomErrorCodes.internal)
        /\ Get(o, "error") = Str("Internal error")
        /\ {o[i].k : i \in DOMAIN o}
             \subseteq {"code", "error", "routeId", "batchId", "statusCode"}

\* C7: every result the close handler delivers has the status the table gives
\* for the exit code, and for an exit code outside the table (null included)
\* its body is the synthesized internal error.
C7_StatusTable ==
  \A r \in Reqs :
    LET q == req[r]
    IN /\ \A i \in DOMAIN q.res :
            q.res[i].by = "close" =>
              /\ InTable(q.code, q.res[i].status)
              /\ ~Recognized(q.code) => Synthesized(q.res[i].body)
       /\ \A i \in DOMAIN q.posts :
            q.posts[i].by = "close" =>
              /\ Parses(q.posts[i].body)
              /\ Get(JSONParse(q.posts[i].body), "statusCode").t = "number"
              /\ InTable(q.code,
                         Get(JSONParse(q.posts[i].body), "statusCode").n)
              /\ ~Recognized(q.code) => Synthesized(q.posts[i].body)

\* a close with the routing-error code, after some stdout, answered with 500
C7_Witness ==
  \E r \in Reqs :
    /\ req[r].pc = "closed"
    /\ req[r].code = vroomErrorCodes.routing
    /\ Len(req[r].stdout) > 0
    /\ Len(req[r].res) = 1
    /\ req[r].res[1].by = "close"
    /\ req[r].res[1].status = 500

\* C8: in the webhook variant a request with a callback URL has its HTTP
\* response completed with the acknowledgement and its final JSON, with the
\* identifiers merged in, posted to the callback URL; a request without one
\* has its result written to the HTTP response and nothing posted.
C8_ResponseRouting ==
  \A r \in Reqs :
    LET q == req[r]
    IN (variant = "webhook" /\ q.pc = "closed") =>
         IF Has(q.body, "callbackUrl")
         THEN /\ Len(q.res) = 1
              /\ q.res[1].by = "ack"
              /\ \A i \in DOMAIN q.posts :
                   /\ q.posts[i].url = Get(q.body, "callbackUrl").s
                   /\ Parses(q.posts[i].body)
                   /\ IdsOf(q.body) \subseteq
                        ObjSet(JSONParse(q.posts[i].body))
         ELSE /\ q.posts = <<>>
              /\ \A i \in DOMAIN q.res : q.res[i].by \in {"close", "error"}

\* how often flag s occurs in a flag list
Count(flags, s) == Cardinality({i \in DOMAIN flags : flags[i].s = s})

\* C9: with override permission disabled, the flags of every request are those
\* of the configuration: -t and -x carry the configured values, -g and -c are
\* present exactly when configured, and there is no -l.
C9_OverrideDisabled ==
  \A r \in Reqs :
    LET f == req[r].reqOptions
    IN (req[r].pc # "idle" /\ ~args.override) =>
         /\ Count(f, "-t ") = 1
         /\ \A i \in DOMAIN f : f[i].s = "-t " => f[i].n = args.threads
         /\ Count(f, "-x ") = 1
         /\ \A i \in DOMAIN f : f[i].s = "-x " => f[i].n = args.explore
         /\ Count(f, "-g") = (IF args.geometry THEN 1 ELSE 0)
         /\ Count(f, "-c") = (IF args.planmode THEN 1 ELSE 0)
         /\ Count(f, "-l ") = 0

\* a request that asks for every override while overriding is disabled
C9_Witness ==
  \E r \in Reqs :
    /\ req[r].pc = "running"
    /\ ~args.override
    /\ ~args.geometry
    /\ ~args.planmode
    /\ Get(req[r].body, "g") = Bool(TRUE)
    /\ Get(req[r].body, "c") = Bool(TRUE)
    /\ IsNumber(Get(req[r].body, "t"))
    /\ IsNumber(Get(req[r].body, "x"))
    /\ IsNumber(Get(req[r].body, "l"))

\* C10: no two requests in flight at once were given the same temp file name.
C10_OwnTempFile ==
  \A r1, r2 \in Reqs :
    (r1 # r2 /\ req[r1].pc = "running" /\ req[r2].pc = "running")
      => req[r1].fileName # req[r2].fileName

\* C11: a health request runs the solver once, and once its subprocess has
\* closed it has been answered exactly once, with 200 if neither the 'error'
\* event nor a stderr 'data' event occurred and with 500 otherwise.
C11_HealthStatus ==
  \A h \in Reqs :
    LET q == health[h]
    IN /\ q.pc # "idle" => q.spawns = 1
       /\ q.pc = "running" => q.res = <<>>
       /\ q.pc = "closed" =>
            /\ Len(q.res) = 1
            /\ q.res[1].status = (IF ~q.errored /\ q.seen = 0
                                  THEN HTTP_OK_CODE
                                  ELSE HTTP_INTERNALERROR_CODE)

\* one health run that wrote to stderr and still exited with the success code,
\* next to one whose spawn failed, both answered
C11_Witness ==
  \E h1, h2 \in Reqs :
    /\ health[h1].pc = "closed"
    /\ health[h1].seen > 0
    /\ health[h1].code = vroomErrorCodes.ok
    /\ health[h1].res[1].status = HTTP_INTERNALERROR_CODE
    /\ health[h2].pc = "closed"
    /\ health[h2].errored
    /\ health[h2].res[1].status = HTTP_INTERNALERROR_CODE

\* a flag list without its '-i <file>'
BeforeInput(flags) == SelectSeq(flags, LAMBDA a : a.s # "-i ")

\* C12: handling requests never changes the module-level flag list: it is
\* always the list built at startup, the flags of every request are derived
\* from that list and the request's own body, and a request that did not ask
\* for geometry has no '-g' another request asked for.
C12_StaticFlagsFrozen ==
  /\ options = StartupOptions(args)
  /\ \A r \in Reqs :
       req[r].pc # "idle" =>
         /\ BeforeInput(req[r].reqOptions)
              = ReqOptions(args, StartupOptions(args), req[r].body)
         /\ (~args.geometry /\ ~Has(req[r].body, "g"))
              => Count(req[r].reqOptions, "-g") = 0

\* two requests in flight, one with the geometry override and one without
C12_Witness ==
  \E r1, r2 \in Reqs :
    /\ args.override
    /\ ~args.geometry
    /\ req[r1].pc = "running"
    /\ req[r2].pc = "running"
    /\ Get(req[r1].body, "g") = Bool(TRUE)
    /\ ~Has(req[r2].body, "g")
    /\ Count(req[r1].reqOptions, "-g") = 1

\* an internal-error payload: the internal-error code and an error message
ErrorPayload(text) ==
  /\ Parses(text)
  /\ Get(JSONParse(text), "code") = Num(vroomErrorCodes.internal)
  /\ Get(JSONParse(text), "error").t = "string"

\* C13: once the 'error' handler of a request has run, an internal-error
\* payload with status 500 has been delivered for it: on the HTTP response
\* without a callback URL, as a post to the callback URL with one.
C13_SpawnFailurePayload ==
  \A r \in Reqs :
    LET q == req[r]
        errorPosts == PostsBy(q, "error")
    IN q.errored =>
         IF Truthy(q.callbackUrl)
         THEN /\ Len(errorPosts) = 1
              /\ errorPosts[1].url = q.callbackUrl.s
              /\ ErrorPayload(errorPosts[1].body)
              /\ Get(JSONParse(errorPosts[1].body), "statusCode")
                   = Num(HTTP_INTERNALERROR_CODE)
         ELSE /\ Len(q.res) = 1
              /\ q.res[1].by = "error"
              /\ q.res[1].status = HTTP_INTERNALERROR_CODE
              /\ ErrorPayload(q.res[1].body)
              /\ q.posts = <<>>

\* C14: after a subprocess that was spawned has closed with an exit code
\* outside the table, the one result delivered has status 500 and its body is
\* the synthesized object {code, error: 'Internal error'}, whatever stdout
\* held: alone in the express and http variants, with the request's routeId
\* and batchId merged in in the webhook variant (and with the statusCode when
\* it is posted to the callback URL).
C14_UnknownCodeSynthesized ==
  \A r \in Reqs :
    LET q == req[r]
        closePosts == PostsBy(q, "close")
    IN (q.pc = "closed" /\ q.spawnOk /\ ~Recognized(q.code)) =>
         IF Truthy(q.callbackUrl)
         THEN /\ Len(closePosts) = 1
              /\ Parses(closePosts[1].body)
              /\ ObjSet(JSONParse(closePosts[1].body))
                   = ObjSet(InternalError) \cup IdsOf(q.body)
                       \cup {Member("statusCode",
                                    Num(HTTP_INTERNALERROR_CODE))}
         ELSE /\ Len(q.res) = 1
              /\ q.res[1].by = "close"
              /\ q.res[1].status = HTTP_INTERNALERROR_CODE
              /\ Parses(q.res[1].body)
              /\ ObjSet(JSONParse(q.res[1].body))
                   = ObjSet(InternalError)
                       \cup (IF variant = "webhook" THEN IdsOf(q.body)
                             ELSE {})

\* a subprocess killed by a signal after writing a whole solution, in chunks,
\* for a request that carries identifiers
C14_Witness ==
  \E r \in Reqs :
    /\ req[r].pc = "closed"
    /\ req[r].spawnOk
    /\ req[r].code = NullCode
    /\ req[r].stdout = Solution
    /\ Len(req[r].chunks) > 1
    /\ variant = "webhook"
    /\ Has(req[r].body, "routeId")
    /\ Len(req[r].res) = 1

\* C15: a request whose temp file could not be written has been answered
\* with status 500 and a body that carries the internal-error code; no
\* subprocess was spawned for it and no temp file of its name exists.
C15_WriteFailureAnswered ==
  \A r \in Reqs :
    LET q == req[r]
    IN q.pc = "failed" =>
         /\ Len(q.res) = 1
         /\ q.res[1].status = HTTP_INTERNALERROR_CODE
         /\ ErrorPayload(q.res[1].body)
         /\ ~q.spawnOk
         /\ ~q.errored
         /\ ~fileExists(files, q.fileName)

\* a body without its overrides of the wrong type: a t, x or l that is no
\* number, a g or c that is no boolean
WellTyped(body) ==
  SelectSeq(body,
            LAMBDA m : /\ m.k \in {"t", "x", "l"} => m.v.t = "number"
                       /\ m.k \in {"g", "c"} => m.v.t = "boolean")

\* C16: with override permission enabled, the flags of a request are those of
\* the same request without its overrides of the wrong type.
C16_WrongTypeIgnored ==
  \A r \in Reqs :
    (req[r].pc # "idle" /\ args.override) =>
      BeforeInput(req[r].reqOptions)
        = ReqOptions(args, StartupOptions(args), WellTyped(req[r].body))

\* C17: the flag list handed to spawn starts with the static flags and ends
\* with '-t N', '-x N', '-i <temp file>' in this order; each of the three
\* occurs once, and '-g' and '-c' occur at most once.
C17_FlagListShape ==
  \A r \in Reqs :
    LET q == req[r]
        f == q.reqOptions
        n == Len(f)
    IN q.pc \in {"running", "closed"} =>
         /\ n >= Len(options) + 3
         /\ SubSeq(f, 1, Len(options)) = options
         /\ f[n - 2].s = "-t "
         /\ f[n - 1].s = "-x "
         /\ f[n] = ArgN("-i ", q.fileName)
         /\ Count(f, "-t ") = 1
         /\ Count(f, "-x ") = 1
         /\ Count(f, "-i ") = 1
         /\ Count(f, "-g") <= 1
         /\ Count(f, "-c") <= 1

\* geometry and plan mode are configured and the request asks for both again,
\* next to a thread count, an exploration level and a matrix limit
C17_Witness ==
  \E r \in Reqs :
    /\ req[r].pc = "running"
    /\ args.override
    /\ args.geometry
    /\ args.planmode
    /\ Get(req[r].body, "g") = Bool(TRUE)
    /\ Get(req[r].body, "c") = Bool(TRUE)
    /\ Get(req[r].body, "t") = Num(2)
    /\ Get(req[r].body, "x") = Num(3)
    /\ Count(req[r].reqOptions, "-l ") = 1
    /\ Count(req[r].reqOptions, "-g") = 1

\* C18: while the subprocess of a request runs, the request's temp file
\* exists and no result of the close handler has been emitted; once the close
\* handler has run, its result stays emitted, also when the deletion failed.
C18_StepsOrdered ==
  \A r \in Reqs :
    LET q == req[r]
    IN /\ q.pc = "running" =>
            /\ fileExists(files, q.fileName)
            /\ PostsBy(q, "close") = <<>>
            /\ \A i \in DOMAIN q.res : q.res[i].by # "close"
       /\ (q.pc = "closed" /\ q.threw = "unlink") =>
            IF Truthy(q.callbackUrl) THEN Len(PostsBy(q, "close")) = 1
            ELSE Len(q.res) = 1

\* the statusCode a post carries
StatusCodeOf(post) ==
  IF Parses(post.body) THEN Get(JSONParse(post.body), "statusCode")
  ELSE Undefined

\* C19: for a request with a callback URL the first post is the
\* acknowledgement, with statusCode 200, made before the subprocess is
\* spawned; once the subprocess has closed exactly two posts have been made to
\* the callback URL, the second one the final result with the statusCode the
\* table gives for the exit code.
C19_TwoPosts ==
  \A r \in Reqs :
    LET q == req[r]
    IN (variant = "webhook" /\ Truthy(q.callbackUrl)) =>
         /\ q.pc # "idle" =>
              /\ Len(q.posts) >= 1
              /\ q.posts[1].by = "ack"
              /\ StatusCodeOf(q.posts[1]) = Num(HTTP_OK_CODE)
              /\ \A i \in DOMAIN q.posts : q.posts[i].url = q.callbackUrl.s
         /\ q.pc = "closed" =>
              /\ Len(q.posts) = 2
              /\ q.posts[2].by # "ack"
              /\ StatusCodeOf(q.posts[2]) = Num(HttpStatus(q.code))

=============================================================================
